---- MODULE Spec2Model ----
(***************************************************************************)
(* Model of the billing schedule engine of attendance-bot                  *)
(* (src/database.py): the payment_schedule and users tables and the        *)
(* operations that read and write them.                                    *)
(*                                                                         *)
(* The schema is not part of the sources.  The table is modelled as the    *)
(* list of its rows, without a uniqueness constraint: every writer checks  *)
(* for an existing row itself (a SELECT COUNT before INSERT/UPDATE) and    *)
(* no INSERT supplies a year column.  The columns the code calls           *)
(* month_name (lines 72..200) and month (lines 294..312) are one field.    *)
(***************************************************************************)
EXTENDS Integers, Sequences, FiniteSets, TLC

----------------------------------------------------------------------------
(* Bounds of the model *)

MaxOps == 3

MaxLimit == 2

\* attendance reports asked for in one behaviour
MaxReports == 1

\* instances in one answer of the listing
MaxListed == 2

\* ids of the rows of the users table
Users == {1, 2}

\* total amounts typed into the /update_payment conversation
Amounts == {1200}

\* batch identifiers typed into the conversation
Batches == {1, 2}

\* numbers of months typed into the conversation
MonthCounts == {1, 3}

\* schedules of a year and more
YearCounts == {12, 13}

\* numbers the months step of the conversation accepts (int(text) takes
\* any integer) that are not a number of months
NonPositiveCounts == {0, -1}

\* (pack_months, amount_per_month) of the pack3 and pack6 buttons
PackChoices == { << 3, 1333 >>, << 6, 1166 >> }

\* the status argument of update_payment_status
StatusArgs == {"paid", "ignore"}

Limits == 0..MaxLimit

\* the days on which the operations run
Dates ==
    { [y |-> 2024, m |-> 11, d |-> 30],
      [y |-> 2024, m |-> 12, d |-> 2],
      [y |-> 2025, m |-> 1,  d |-> 5] }

----------------------------------------------------------------------------
(* Calendar arithmetic: datetime.date, dateutil.relativedelta, MySQL dates *)

Null == [y |-> 0, m |-> 0, d |-> 0]

IsLeap(y) == (y % 4 = 0 /\ y % 100 # 0) \/ y % 400 = 0

DaysInMonth(y, m) ==
    IF m = 2 THEN (IF IsLeap(y) THEN 29 ELSE 28)
    ELSE IF m \in {4, 6, 9, 11} THEN 30 ELSE 31

Min(a, b) == IF a < b THEN a ELSE b

\* date + relativedelta(months=i): the day is clipped to the month's length
AddMonths(dt, i) ==
    LET t  == (dt.m - 1) + i
        ny == dt.y + (t \div 12)
        nm == (t % 12) + 1
    IN  [y |-> ny, m |-> nm, d |-> Min(dt.d, DaysInMonth(ny, nm))]

\* date - relativedelta(days=1)
SubDay(dt) ==
    IF dt.d > 1 THEN [dt EXCEPT !.d = dt.d - 1]
    ELSE IF dt.m > 1
         THEN [y |-> dt.y, m |-> dt.m - 1, d |-> DaysInMonth(dt.y, dt.m - 1)]
         ELSE [y |-> dt.y - 1, m |-> 12, d |-> 31]

\* date + relativedelta(day=31): the last day of the date's month
LastDayOfMonth(dt) == [dt EXCEPT !.d = DaysInMonth(dt.y, dt.m)]

MonthNames ==
    << "January", "February", "March", "April", "May", "June", "July",
       "August", "September", "October", "November", "December" >>

\* date.strftime('%B') and MySQL MONTHNAME()
MonthName(dt) == MonthNames[dt.m]

DateLT(a, b) ==
    \/ a.y < b.y
    \/ a.y = b.y /\ a.m < b.m
    \/ a.y = b.y /\ a.m = b.m /\ a.d < b.d

DateLE(a, b) == a = b \/ DateLT(a, b)

RECURSIVE DaysBeforeMonth(_, _)
DaysBeforeMonth(y, m) ==
    IF m = 1 THEN 0 ELSE DaysBeforeMonth(y, m - 1) + DaysInMonth(y, m - 1)

RECURSIVE DaysBeforeYear(_)
DaysBeforeYear(y) ==
    IF y <= 2000 THEN 0
    ELSE DaysBeforeYear(y - 1) + (IF IsLeap(y - 1) THEN 366 ELSE 365)

\* a day number, for DATE_SUB(CURRENT_DATE(), INTERVAL 4 DAY)
DayNum(dt) == DaysBeforeYear(dt.y) + DaysBeforeMonth(dt.y, dt.m) + dt.d

----------------------------------------------------------------------------
(* Amounts: amount / months is a quotient, kept as a reduced fraction *)

RECURSIVE GCD(_, _)
GCD(a, b) == IF b = 0 THEN a ELSE GCD(b, a % b)

Frac(a, n) ==
    IF a = 0 THEN << 0, 1 >>
    ELSE LET g == GCD(a, n) IN << a \div g, n \div g >>

----------------------------------------------------------------------------
(* State *)

VARIABLES
    ps,       \* the rows of payment_schedule, in insertion order
    users,    \* the users table: id -> row
    today,    \* CURRENT_DATE() / datetime.now().date()
    result,   \* the rows returned by the last fetch
    last,     \* the operation that ran last, its arguments and its outcome
    caller,   \* what the caller of that operation got back
    nops,     \* number of operations run so far
    zoom,     \* the attendance reports: the last call, what it asked the
              \* platform, what the platform answered, what it returned
    chat      \* the chat layer: who sent the last update, the handler that
              \* took it, each sender's conversation state and user_data

vars == << ps, users, today, result, last, caller, nops, zoom, chat >>

NoOp == [op |-> "none", ok |-> TRUE, user |-> 0, month |-> "", n |-> 0,
         amt |-> 0, batch |-> 0, arg |-> "", at |-> 0]

\* no call has been made: nothing returned, no connection asked for, no
\* reply sent
NoCall == [ret |-> "", conn |-> "none", reply |-> ""]

\* the call ran to its return statement (or fell off the end: "None"); the
\* finally block closed the cursor and the connection
Returned(value) == [ret |-> value, conn |-> "closed", reply |-> ""]

\* get_database_connection() raised: the call sits before the try block, so
\* the error goes to the caller and there is no connection
ConnectRaised == [ret |-> "mysql.connector.Error", conn |-> "none",
                  reply |-> ""]

\* an exception the except clause does not name went through the finally
\* block, which closed the connection, to the caller
Raised(exception) == [ret |-> exception, conn |-> "closed", reply |-> ""]

\* the faults of a call with one statement: none, the connection cannot be
\* made, the statement raises mysql.connector.Error
Faults == {"none", "connect", "statement"}

\* no target_date_str argument
NoTarget == [fmt |-> "none", date |-> Null]

\* a returned string: its fixed text, the date string it quotes and, for a
\* report, its sections
Message(text, target_date_str) ==
    [ text |-> text, date |-> target_date_str, sections |-> << >> ]

\* a call of get_attendance_report that returned before the listing
Early(target, calls, out) ==
    [ target |-> target, calls |-> calls, out |-> out, raised |-> "",
      listed |-> FALSE, listing |-> << >>, meetings |-> << >>,
      selected |-> << >>, answers |-> << >>, returned |-> << >>,
      found |-> << >> ]

\* no report has been asked for
NoReport == [n |-> 0, call |-> Early(NoTarget, << >>, Message("", NoTarget))]

\* AUTHORIZED_USERS.split(','): the usernames the deployment authorizes
AUTHORIZED_USERNAMES_LIST == {"admin"}

\* the usernames that send updates to the bot
Requesters == {"admin", "guest"}

\* context.user_data before the conversation has stored anything
NoData == [user_id |-> 0, amount |-> 0, months |-> 0]

\* no update has come in: every sender is outside the conversation
NoChat == [ from |-> "", handler |-> "",
            conv |-> [r \in Requesters |-> "END"],
            user_data |-> [r \in Requesters |-> NoData] ]

Init ==
    /\ chat = NoChat
    /\ ps = << >>
    /\ users = [u \in Users |-> [status |-> "active"]]
    /\ today \in Dates
    /\ result = << >>
    /\ last = NoOp
    /\ caller = NoCall
    /\ nops = 0
    /\ zoom = NoReport

\* what is recorded of a call: its arguments when it succeeded; the
\* operation, the user and the length of the loop when it failed
\* `at` is the month of the loop at which a statement failed (0: none, or
\* the call has no loop)
Outcome(op, ok, u, month_name, n, amt, b, arg, at) ==
    IF ok
    THEN [op |-> op, ok |-> TRUE, user |-> u, month |-> month_name, n |-> n,
          amt |-> amt, batch |-> b, arg |-> arg, at |-> 0]
    ELSE [op |-> op, ok |-> FALSE, user |-> u, month |-> "",
          n |-> n, amt |-> 0, batch |-> 0, arg |-> "", at |-> at]

RowsOf(tbl, u) == { k \in DOMAIN tbl : tbl[k].user = u }

----------------------------------------------------------------------------
(* update_payment(user_id, amount, months, batch_id) *)

\* mutant of Rollback: the statements run before the failure stay written
RollbackKeepsWork(before, work) == work

\* conn.rollback(): the table is what it was when the transaction began
Rollback(before, work) == before

\* mutant of UpsertMonth: the month is inserted without looking for a record
UpsertMonthInserts(tbl, u, amt, n, b, i, now) ==
    LET month_start == AddMonths(now, i)
        month_end   == SubDay(LastDayOfMonth(month_start))
    IN  Append(tbl, [ user |-> u, amount |-> Frac(amt, n),
                      start_date |-> month_start, end_date |-> month_end,
                      batch |-> b, month |-> MonthName(month_start),
                      status |-> "Due", follow_up |-> Null ])

\* one iteration of the loop over range(months)
UpsertMonth(tbl, u, amt, n, b, i, now) ==
    LET month_start == AddMonths(now, i)
        month_end   == SubDay(LastDayOfMonth(month_start))
        month_name  == MonthName(month_start)
        match(k)    == tbl[k].user = u /\ tbl[k].month = month_name
        record_exists == Cardinality({ k \in DOMAIN tbl : match(k) })
    IN  IF record_exists # 0
        THEN [ k \in DOMAIN tbl |->
                 IF match(k)
                 THEN [ tbl[k] EXCEPT !.amount = Frac(amt, n),
                                      !.start_date = month_start,
                                      !.end_date = month_end,
                                      !.batch = b,
                                      !.status = "Due" ]
                 ELSE tbl[k] ]
        ELSE Append(tbl, [ user |-> u, amount |-> Frac(amt, n),
                           start_date |-> month_start, end_date |-> month_end,
                           batch |-> b, month |-> month_name,
                           status |-> "Due", follow_up |-> Null ])

\* iterations i, i+1, .. upto-1 of the loop
RECURSIVE UpdatePaymentLoop(_, _, _, _, _, _, _, _)
UpdatePaymentLoop(tbl, u, amt, n, b, i, upto, now) ==
    IF i >= upto THEN tbl
    ELSE UpdatePaymentLoop(UpsertMonth(tbl, u, amt, n, b, i, now),
                           u, amt, n, b, i + 1, upto, now)

\* if update_payment(...): the truth value of what the call returned
Truthy(value) == value = "True"

\* the reply of the batch_id step
BatchIdReply(value) ==
    IF Truthy(value) THEN "Payment information updated successfully."
    ELSE "Failed to update payment information."

\* failAt = 0: every statement succeeds; failAt = k: a statement of the
\* k-th month raises mysql.connector.Error
\* months = 0: amount / months raises ZeroDivisionError before the loop,
\* and the except clause names mysql.connector.Error only.  There is no
\* return statement: a call that does not raise returns None.
\* The caller is the batch_id step of the conversation, which replies.
UpdatePayment(u, amt, n, b, failAt) ==
    /\ nops < MaxOps
    /\ IF n = 0
       THEN ps' = ps
       ELSE IF failAt = 0
       THEN ps' = UpdatePaymentLoop(ps, u, amt, n, b, 0, n, today)
       ELSE ps' = Rollback(ps, UpdatePaymentLoop(ps, u, amt, n, b, 0,
                                                 failAt - 1, today))
    /\ last' = Outcome("update_payment", n # 0 /\ failAt = 0, u, "", n, amt,
                        b, "", failAt)
    /\ caller' = IF n = 0
                 THEN Raised("ZeroDivisionError")
                 ELSE [Returned("None") EXCEPT !.reply = BatchIdReply("None")]
    /\ nops' = nops + 1
    /\ UNCHANGED << users, today, result, zoom >>

----------------------------------------------------------------------------
(* The WHERE clause shared by the status, follow-up, pack and inactive     *)
(* statements:                                                             *)
(*   user_id = %s AND month_name = %s                                      *)
(*   AND YEAR(start_date) = YEAR(CURRENT_DATE())                           *)

MatchThisYear(tbl, k, u, month_name, now) ==
    /\ tbl[k].user = u
    /\ tbl[k].month = month_name
    /\ tbl[k].start_date.y = now.y

\* the month names a caller passes: those of the user's rows and the
\* current month
MonthArgs(u) == { ps[k].month : k \in RowsOf(ps, u) } \cup { MonthName(today) }

----------------------------------------------------------------------------
(* update_payment_status(user_id, month_name, status) *)

\* mutant of SetStatus: 'ignore' marks the row paid but keeps its amount
SetStatusKeepsAmount(tbl, u, month_name, status, now) ==
    [ k \in DOMAIN tbl |->
        IF MatchThisYear(tbl, k, u, month_name, now)
        THEN IF status = "ignore"
             THEN [ tbl[k] EXCEPT !.status = "paid" ]
             ELSE [ tbl[k] EXCEPT !.status = status ]
        ELSE tbl[k] ]

SetStatus(tbl, u, month_name, status, now) ==
    [ k \in DOMAIN tbl |->
        IF MatchThisYear(tbl, k, u, month_name, now)
        THEN IF status = "ignore"
             THEN [ tbl[k] EXCEPT !.status = "paid", !.amount = Frac(0, 1) ]
             ELSE [ tbl[k] EXCEPT !.status = status ]
        ELSE tbl[k] ]

UpdatePaymentStatus(u, month_name, status, fault) ==
    /\ nops < MaxOps
    /\ ps' = CASE fault = "none" -> SetStatus(ps, u, month_name, status, today)
               [] fault = "statement" -> Rollback(ps, ps)
               [] fault = "connect" -> ps
    /\ last' = Outcome("update_payment_status", fault = "none", u,
                        month_name, 0, 0, 0, status, 0)
    /\ caller' = CASE fault = "none" -> Returned("True")
                   [] fault = "statement" -> Returned("False")
                   [] fault = "connect" -> ConnectRaised
    /\ nops' = nops + 1
    /\ UNCHANGED << users, today, result, zoom >>

----------------------------------------------------------------------------
(* update_followup_date(user_id, month_name) *)

\* mutant of SetFollowUp: a follow-up reopens the month
SetFollowUpReopens(tbl, u, month_name, now) ==
    [ k \in DOMAIN tbl |->
        IF MatchThisYear(tbl, k, u, month_name, now)
        THEN [ tbl[k] EXCEPT !.follow_up = now, !.status = "Due" ]
        ELSE tbl[k] ]

SetFollowUp(tbl, u, month_name, now) ==
    [ k \in DOMAIN tbl |->
        IF MatchThisYear(tbl, k, u, month_name, now)
        THEN [ tbl[k] EXCEPT !.follow_up = now ]
        ELSE tbl[k] ]

UpdateFollowupDate(u, month_name, fault) ==
    /\ nops < MaxOps
    /\ ps' = CASE fault = "none" -> SetFollowUp(ps, u, month_name, today)
               [] fault = "statement" -> Rollback(ps, ps)
               [] fault = "connect" -> ps
    /\ last' = Outcome("update_followup_date", fault = "none", u,
                        month_name, 0, 0, 0, "", 0)
    /\ caller' = CASE fault = "none" -> Returned("True")
                   [] fault = "statement" -> Returned("False")
                   [] fault = "connect" -> ConnectRaised
    /\ nops' = nops + 1
    /\ UNCHANGED << users, today, result, zoom >>

----------------------------------------------------------------------------
(* update_pack_payment(user_id, start_month, pack_months,                  *)
(*                     amount_per_month, batch_id)                         *)

\* one iteration of the loop over range(pack_months)
PackMonth(tbl, u, start_date, i, amount_per_month, b, now) ==
    LET month_date == AddMonths(start_date, i)
        end_date   == SubDay(AddMonths(month_date, 1))
        month_name == MonthName(month_date)
        count == Cardinality({ k \in DOMAIN tbl :
                                 MatchThisYear(tbl, k, u, month_name, now) })
    IN  IF count = 0
        THEN Append(tbl, [ user |-> u, amount |-> Frac(amount_per_month, 1),
                           start_date |-> month_date, end_date |-> end_date,
                           month |-> month_name, status |-> "paid",
                           batch |-> b, follow_up |-> Null ])
        ELSE [ k \in DOMAIN tbl |->
                 IF MatchThisYear(tbl, k, u, month_name, now)
                 THEN [ tbl[k] EXCEPT !.amount = Frac(amount_per_month, 1),
                                      !.end_date = end_date,
                                      !.status = "paid",
                                      !.batch = b ]
                 ELSE tbl[k] ]

\* mutant of PackLoop: the loop stops one month short of the pack
RECURSIVE PackLoopShort(_, _, _, _, _, _, _, _)
PackLoopShort(tbl, u, start_date, i, upto, amount_per_month, b, now) ==
    IF i >= upto - 1 THEN tbl
    ELSE PackLoopShort(PackMonth(tbl, u, start_date, i, amount_per_month, b,
                                 now),
                       u, start_date, i + 1, upto, amount_per_month, b, now)

RECURSIVE PackLoop(_, _, _, _, _, _, _, _)
PackLoop(tbl, u, start_date, i, upto, amount_per_month, b, now) ==
    IF i >= upto THEN tbl
    ELSE PackLoop(PackMonth(tbl, u, start_date, i, amount_per_month, b, now),
                  u, start_date, i + 1, upto, amount_per_month, b, now)

\* the rows the first SELECT returns; fetchone() takes one of them
StartRows(tbl, u, start_month, now) ==
    { k \in DOMAIN tbl : MatchThisYear(tbl, k, u, start_month, now) }

UpdatePackPayment(u, start_month, pack_months, amount_per_month, b, failAt) ==
    /\ nops < MaxOps
    /\ IF StartRows(ps, u, start_month, today) = {}
       THEN \* "No start date found": return False
            /\ ps' = ps
            /\ last' = Outcome("update_pack_payment", FALSE, u, start_month,
                                pack_months, amount_per_month, b, "", 0)
            /\ caller' = Returned("False")
       ELSE \E r \in StartRows(ps, u, start_month, today) :
            /\ ps' = IF failAt = 0
                     THEN PackLoop(ps, u, ps[r].start_date, 0, pack_months,
                                   amount_per_month, b, today)
                     ELSE Rollback(ps, PackLoop(ps, u, ps[r].start_date, 0,
                                                failAt - 1, amount_per_month,
                                                b, today))
            /\ last' = Outcome("update_pack_payment", failAt = 0, u,
                                start_month, pack_months, amount_per_month,
                                b, "", failAt)
            /\ caller' = Returned(IF failAt = 0 THEN "True" ELSE "False")
    /\ nops' = nops + 1
    /\ UNCHANGED << users, today, result, zoom >>

----------------------------------------------------------------------------
(* mark_user_inactive(user_id, month_name) *)

CloseMonth(tbl, u, month_name, now) ==
    [ k \in DOMAIN tbl |->
        IF MatchThisYear(tbl, k, u, month_name, now)
        THEN [ tbl[k] EXCEPT !.amount = Frac(0, 1), !.status = "paid" ]
        ELSE tbl[k] ]

MarkUserInactive(u, month_name, fail) ==
    /\ nops < MaxOps
    /\ IF fail
       THEN /\ ps' = Rollback(ps, CloseMonth(ps, u, month_name, today))
            /\ users' = users
       ELSE /\ ps' = CloseMonth(ps, u, month_name, today)
            /\ users' = [users EXCEPT ![u].status = "inactive"]
    /\ last' = Outcome("mark_user_inactive", ~fail, u, month_name, 0, 0, 0,
                        "", 0)
    /\ caller' = Returned(IF fail THEN "False" ELSE "True")
    /\ nops' = nops + 1
    /\ UNCHANGED << today, result, zoom >>

----------------------------------------------------------------------------
(* fetch_unpaid_users(limit) *)

\* the rows of the join that pass the ON and WHERE conditions
Eligible(tbl, usr, now) ==
    { k \in DOMAIN tbl :
        /\ tbl[k].user \in DOMAIN usr
        /\ tbl[k].status = "Due"
        /\ \/ tbl[k].follow_up = Null
           \/ DayNum(tbl[k].follow_up) < DayNum(now) - 4 }

\* MIN(payment_schedule.start_date) over a group
MinDate(S) == CHOOSE a \in S : \A b \in S : DateLE(a, b)

\* mutant of GroupByUser: no GROUP BY, one row per eligible record
GroupByRecord(tbl, elig) ==
    { [ id |-> tbl[k].user,
        start_date |-> tbl[k].start_date,
        Due_Months |-> MonthName(tbl[k].start_date) ] : k \in elig }

\* GROUP BY users.id, ...: one row per user that has an eligible row
GroupByUser(tbl, elig) ==
    { [ id |-> u,
        start_date |-> MinDate({ tbl[k].start_date :
                                   k \in { j \in elig : tbl[j].user = u } }),
        Due_Months |-> MonthName(MinDate({ tbl[k].start_date :
                                   k \in { j \in elig : tbl[j].user = u } })) ]
      : u \in { tbl[k].user : k \in elig } }

\* ORDER BY oldest_due_date ASC: the orders of the rows the statement allows
OrderByDueDate(rows) ==
    { s \in [1..Cardinality(rows) -> rows] :
        /\ \A i, j \in DOMAIN s : i # j => s[i] # s[j]
        /\ \A i, j \in DOMAIN s : i < j => DateLE(s[i].start_date,
                                                  s[j].start_date) }

\* LIMIT %s
Limit(s, limit) == SubSeq(s, 1, Min(limit, Len(s)))

FetchUnpaidUsers(limit) ==
    /\ nops < MaxOps
    /\ \E s \in OrderByDueDate(GroupByUser(ps, Eligible(ps, users, today))) :
         result' = Limit(s, limit)
    /\ last' = Outcome("fetch_unpaid_users", TRUE, 0, "", limit, 0, 0, "",
                        0)
    /\ caller' = Returned("rows")
    /\ nops' = nops + 1
    /\ UNCHANGED << ps, users, today, zoom >>

----------------------------------------------------------------------------
(* get_batch_id_for_user(user_id) *)

\* the function has no try block: when cursor.execute raises, the lines
\* cursor.close() and conn.close() after it are not run and the error goes
\* to the caller with the connection still open
StatementRaisedUnclosed == [ret |-> "mysql.connector.Error", conn |-> "open",
                            reply |-> ""]

\* SELECT batch_id FROM users WHERE id = %s; result[0] if result else 1
GetBatchIdForUser(u, fault) ==
    /\ nops < MaxOps
    /\ last' = Outcome("get_batch_id_for_user", fault = "none", u, "", 0, 0,
                        0, "", 0)
    /\ caller' = CASE fault = "none" -> Returned("batch_id")
                   [] fault = "connect" -> ConnectRaised
                   [] fault = "statement" -> StatementRaisedUnclosed
    /\ nops' = nops + 1
    /\ UNCHANGED << ps, users, today, result, zoom >>

----------------------------------------------------------------------------
(* The clock *)

Tick ==
    /\ \E dt \in Dates : DateLT(today, dt) /\ today' = dt
    /\ last' = [NoOp EXCEPT !.op = "tick"]
    /\ caller' = NoCall
    /\ UNCHANGED << ps, users, result, nops, zoom, chat >>

----------------------------------------------------------------------------
(* zoom_service.py: the configuration and what the platform answers *)

\* BATCH_IDS, in the order of the dict; an identifier is the sequence of
\* its characters
BATCH_IDS ==
    << [ name |-> "Batch 1",
         id |-> << "8", "3", "5", "2", "7", "6", "4", "5", "0", "0", "1" >> ],
       [ name |-> "Batch 2",
         id |-> << "8", "8", "0", "0", "2", "2", "7", "8", "8", "4", "0" >> ],
       [ name |-> "Batch 3",
         id |-> << "8", "1", "3", "8", "7", "7", "8", "1", "9", "2", "3" >> ],
       [ name |-> "Batch 4",
         id |-> << "8", "8", "5", "5", "4", "0", "0", "7", "4", "5", "3" >> ] >>

\* the days on which reports are asked for
D23 == [y |-> 2025, m |-> 11, d |-> 23]

D24 == [y |-> 2025, m |-> 11, d |-> 24]

ReportDays == {D23, D24}

\* the target_date_str argument: absent (NoTarget), a 'YYYY-MM-DD' string,
\* or a string in another format
TargetArgs ==
    { NoTarget, [fmt |-> "iso", date |-> D23], [fmt |-> "iso", date |-> D24],
      [fmt |-> "dmy", date |-> D24] }

\* a start_time of the listing: "Z" is 2025-11-23T19:00:00Z, "ms" is
\* 2025-11-23T19:00:00.000Z, "offset" is 2025-11-23T19:00:00+00:00, "none"
\* is a missing field
StartTime(fmt, date, hh, mm) == [fmt |-> fmt, date |-> date, hh |-> hh, mm |-> mm]

\* identifiers as the platform may print them
PlainId == BATCH_IDS[1].id

SpacedId ==
    << "8", "3", "5", "2", " ", "7", "6", "4", "5", " ", "0", "0", "1" >>

PrefixedId == << "9", "9" >> \o BATCH_IDS[2].id

OtherId == << "1", "2", "3", "4", "5", "6", "7", "8", "9", "0", "1" >>

\* the instances the listing may return
LateInstance ==
    [ id |-> PlainId, start_time |-> StartTime("Z", D23, 19, 0), uuid |-> "u1" ]

Instances ==
    { LateInstance,
      [ id |-> SpacedId, start_time |-> StartTime("ms", D24, 1, 30),
        uuid |-> "u2" ],
      [ id |-> PrefixedId, start_time |-> StartTime("Z", D23, 1, 30),
        uuid |-> "u3" ],
      [ id |-> OtherId, start_time |-> StartTime("Z", D24, 1, 30),
        uuid |-> "u4" ],
      [ id |-> BATCH_IDS[3].id, start_time |-> StartTime("offset", D24, 1, 30),
        uuid |-> "u5" ],
      [ id |-> BATCH_IDS[4].id, start_time |-> StartTime("Z", D24, 2, 0),
        uuid |-> "" ] }

\* one response of a paginated endpoint: its status, its entries, and
\* whether it carries a next_page_token.  Status 403 is the error payload
\* of a missing scope (code 4711); status 0 stands for a request that
\* raised in the transport (aiohttp.ClientError) instead of answering
Page(status, items, more) == [status |-> status, items |-> items, more |-> more]

\* sequences of at most MaxListed distinct instances
InstanceSeqs ==
    UNION { { s \in [1..n -> Instances] :
                \A i, j \in 1..n : i # j => s[i] # s[j] } : n \in 0..MaxListed }

\* what the platform answers to the listing, page after page
ListingAnswers ==
    { << Page(200, s, FALSE) >> : s \in InstanceSeqs }
    \cup { << Page(200, << s[1] >>, TRUE), Page(200, Tail(s), FALSE) >> :
             s \in { t \in InstanceSeqs : Len(t) >= 2 } }
    \cup { << Page(200, << a >>, TRUE), Page(403, << >>, FALSE) >> :
             a \in Instances }
    \cup { << Page(404, << >>, FALSE) >>, << Page(403, << >>, FALSE) >>,
           << Page(0, << >>, FALSE) >>,
           << Page(200, << LateInstance >>, FALSE),
              Page(200, << LateInstance >>, FALSE) >> }

\* what the platform answers to a participants request: the name fields of
\* the entries ("" is a missing or empty name)
ParticipantAnswers ==
    { << Page(200, << >>, FALSE) >>,
      << Page(200, << "Ravi", "Asha", "Ravi" >>, FALSE) >>,
      << Page(200, << "Apoorva Yoga" >>, FALSE) >>,
      << Page(200, << "Tom & Jo", "Apoorva Yoga" >>, TRUE),
         Page(200, << "", "Asha", "Tom & Jo" >>, FALSE) >>,
      << Page(200, << "Ravi" >>, TRUE), Page(500, << >>, FALSE) >>,
      << Page(403, << >>, FALSE) >>,
      << Page(0, << >>, FALSE) >>,
      << Page(200, << "Asha" >>, FALSE), Page(200, << "Ravi" >>, FALSE) >> }

\* what the token request gives: a token, a status other than 200, or a
\* fault of the transport
TokenAnswers == {"token", "denied", "fault"}

\* what the user lookup gives: the id, a status other than 200, or a fault
\* of the transport
UserAnswers == {"id", "missing", "fault"}

----------------------------------------------------------------------------
(* get_meetings_by_date_range, get_meeting_participants: the page loop *)

\* mutant of ReadPages: a page's entries are put before those already read
RECURSIVE ReadPagesPrepends(_, _, _)
ReadPagesPrepends(pages, i, acc) ==
    IF i > Len(pages) THEN acc
    ELSE IF pages[i].status = 200
         THEN IF pages[i].more
              THEN ReadPagesPrepends(pages, i + 1, pages[i].items \o acc)
              ELSE pages[i].items \o acc
         ELSE acc

RECURSIVE ReadPages(_, _, _)
ReadPages(pages, i, acc) ==
    IF i > Len(pages) THEN acc
    ELSE IF pages[i].status = 200
         THEN IF pages[i].more
              THEN ReadPages(pages, i + 1, acc \o pages[i].items)
              ELSE acc \o pages[i].items
         ELSE acc

----------------------------------------------------------------------------
(* get_attendance_report(target_date_str) *)

IsDigit(c) == c \in {"0", "1", "2", "3", "4", "5", "6", "7", "8", "9"}

NotSpace(c) == c # " "

\* mutant of Digits: the identifier is compared as the platform printed it
DigitsAsPrinted(s) == s

\* ''.join(filter(str.isdigit, s))
Digits(s) == SelectSeq(s, IsDigit)

\* str.endswith
EndsWith(s, t) ==
    /\ Len(t) <= Len(s)
    /\ SubSeq(s, Len(s) - Len(t) + 1, Len(s)) = t

\* the loop over batch_lookup: the name of the first batch that matches,
\* "" for none
BatchName(id) ==
    LET normalized_meeting_id == Digits(id)
        hit(i) == LET normalized_batch_id ==
                        Digits(SelectSeq(BATCH_IDS[i].id, NotSpace))
                  IN  \/ normalized_meeting_id = normalized_batch_id
                      \/ EndsWith(normalized_meeting_id, normalized_batch_id)
        hits == { i \in DOMAIN BATCH_IDS : hit(i) }
    IN  IF hits = {} THEN ""
        ELSE BATCH_IDS[CHOOSE i \in hits : \A j \in hits : i <= j].name

\* strptime(..., "%Y-%m-%dT%H:%M:%SZ"), after the fraction of a second is
\* cut off when the string has a '.' and a 'Z'
Parses(start_time) == start_time.fmt \in {"Z", "ms"}

NextDay(dt) ==
    IF dt.d < DaysInMonth(dt.y, dt.m) THEN [dt EXCEPT !.d = dt.d + 1]
    ELSE IF dt.m < 12 THEN [y |-> dt.y, m |-> dt.m + 1, d |-> 1]
    ELSE [y |-> dt.y + 1, m |-> 1, d |-> 1]

\* mutant of ToIst: the UTC time is taken as the local time
ToIstNoShift(start_time) ==
    [ date |-> start_time.date, hh |-> start_time.hh, mm |-> start_time.mm ]

\* dt_utc + timedelta(hours=5, minutes=30)
ToIst(start_time) ==
    LET minutes == start_time.hh * 60 + start_time.mm + 330
    IN  IF minutes >= 1440
        THEN [ date |-> NextDay(start_time.date),
               hh |-> (minutes - 1440) \div 60, mm |-> (minutes - 1440) % 60 ]
        ELSE [ date |-> start_time.date,
               hh |-> minutes \div 60, mm |-> minutes % 60 ]

\* the checks of the loop over the meetings, up to the participants request
Selects(meeting, target_date) ==
    /\ BatchName(meeting.id) # ""
    /\ meeting.start_time.fmt # "none"
    /\ Parses(meeting.start_time)
    /\ ToIst(meeting.start_time).date = target_date
    /\ meeting.uuid # ""

\* the positions in the listing of the instances the loop keeps, in order
RECURSIVE Selected(_, _, _)
Selected(meetings, target_date, i) ==
    IF i > Len(meetings) THEN << >>
    ELSE IF Selects(meetings[i], target_date)
         THEN << i >> \o Selected(meetings, target_date, i + 1)
         ELSE Selected(meetings, target_date, i + 1)

\* the names of the catalogue in the order sorted() puts strings in
NameOrder == << "Apoorva Yoga", "Asha", "Ravi", "Tom & Jo" >>

\* mutant of UniqueNames: the host is not discarded
UniqueNamesWithHost(participants) ==
    { participants[i] : i \in DOMAIN participants } \ {""}

\* the set of the truthy names, without "Apoorva Yoga"
UniqueNames(participants) ==
    ({ participants[i] : i \in DOMAIN participants } \ {""})
        \ {"Apoorva Yoga"}

\* sorted(list(unique_names))
Sorted(names) ==
    LET In(x) == x \in names IN SelectSeq(NameOrder, In)

\* html.escape, on the names of the catalogue
HtmlEscape(name) == IF name = "Tom & Jo" THEN "Tom &amp; Jo" ELSE name

\* dt_ist.strftime("%I:%M %p")
TimeStr(start_time) ==
    LET ist == ToIst(start_time)
    IN  [ hh |-> ((ist.hh + 11) % 12) + 1, mm |-> ist.mm,
          p |-> IF ist.hh < 12 THEN "AM" ELSE "PM" ]

\* the lines of one meeting of the report
MeetingLines(entry) ==
    [ time |-> TimeStr(entry.start_time),
      lines |-> IF entry.participants # << >>
                THEN [ i \in DOMAIN entry.participants |->
                         HtmlEscape(entry.participants[i]) ]
                ELSE << "No participants found." >> ]

\* the sections of the report: for batch in sorted(BATCH_IDS.keys()), if
\* batch in found_batches
RECURSIVE Sections(_, _)
Sections(found, b) ==
    IF b > Len(BATCH_IDS) THEN << >>
    ELSE LET Of(entry) == entry.topic = BATCH_IDS[b].name
             mine == SelectSeq(found, Of)
         IN  IF mine = << >> THEN Sections(found, b + 1)
             ELSE << [ batch |-> BATCH_IDS[b].name,
                       meetings |-> [ i \in DOMAIN mine |->
                                        MeetingLines(mine[i]) ] ] >>
                  \o Sections(found, b + 1)

\* mutant of Render: the report is built also when no batch was found
RenderAlways(found, target_date_str) ==
    [ text |-> "Attendance Report for", date |-> target_date_str,
      sections |-> Sections(found, 1) ]

\* from `if not found_batches` to the end
Render(found, target_date_str) ==
    IF found = << >>
    THEN Message("No Batch meetings found for", target_date_str)
    ELSE [ text |-> "Attendance Report for", date |-> target_date_str,
           sections |-> Sections(found, 1) ]

\* the number of requests the page loop makes
RECURSIVE Requests(_, _)
Requests(pages, i) ==
    IF i > Len(pages) THEN 0
    ELSE IF pages[i].status = 200 /\ pages[i].more
         THEN 1 + Requests(pages, i + 1)
         ELSE 1

\* session.get raises in the page loop, which has no try block
RECURSIVE Raises(_, _)
Raises(pages, i) ==
    IF i > Len(pages) THEN FALSE
    ELSE IF pages[i].status = 0 THEN TRUE
    ELSE IF pages[i].status = 200 /\ pages[i].more
         THEN Raises(pages, i + 1)
         ELSE FALSE

\* the requests of the participants calls for answers j, j+1, ...
RECURSIVE ParticipantCalls(_, _)
ParticipantCalls(answers, j) ==
    IF j > Len(answers) THEN << >>
    ELSE [ r \in 1..Requests(answers[j], 1) |->
             "GET report/meetings/{uuid}/participants" ]
         \o ParticipantCalls(answers, j + 1)

\* the whole call: its argument, the requests it made in order, the string
\* it returned or the exception it raised, and from the loop: the listing,
\* the positions it kept, what the platform answered and returned for each,
\* and the entries of found_batches
AttendanceReport(now, target, token, email_set, user, listing, answers) ==
    LET target_date_str ==
            IF target.fmt = "none" THEN [fmt |-> "iso", date |-> now]
            ELSE target
        target_date == target_date_str.date
        meetings == ReadPages(listing, 1, << >>)
        selected == Selected(meetings, target_date, 1)
        failing == { j \in DOMAIN selected : Raises(answers[j], 1) }
        fetched == IF failing = {} THEN Len(selected)
                   ELSE (CHOOSE j \in failing : \A k \in failing : j <= k) - 1
        returned == [ j \in 1..fetched |-> ReadPages(answers[j], 1, << >>) ]
        found == [ j \in 1..fetched |->
                     [ topic |-> BatchName(meetings[selected[j]].id),
                       start_time |-> meetings[selected[j]].start_time,
                       participants |-> Sorted(UniqueNames(returned[j])) ] ]
        upto_user == << "POST oauth/token", "GET users/{email}" >>
        upto_listing ==
            upto_user
            \o [ r \in 1..Requests(listing, 1) |->
                   IF user = "id" THEN "GET report/users/{id}/meetings"
                   ELSE "GET report/users/{email}/meetings" ]
        nothing == Message("", NoTarget)
    IN  IF token = "fault"
        THEN [ Early(target, << "POST oauth/token" >>, nothing)
               EXCEPT !.raised = "aiohttp.ClientError" ]
        ELSE IF token = "denied"
        THEN Early(target, << "POST oauth/token" >>,
                   Message("Failed to authenticate with Zoom.", NoTarget))
        ELSE IF target_date_str.fmt # "iso"
        THEN Early(target, << "POST oauth/token" >>,
                   Message("Invalid date format", target_date_str))
        ELSE IF DateLT(now, target_date)
        THEN Early(target, << "POST oauth/token" >>,
                   Message("is in the future", target_date_str))
        ELSE IF ~email_set
        THEN Early(target, << "POST oauth/token" >>,
                   Message("ZOOM_HOST_EMAIL not configured", NoTarget))
        ELSE IF user = "fault"
        THEN [ Early(target, upto_user, nothing)
               EXCEPT !.raised = "aiohttp.ClientError" ]
        ELSE IF Raises(listing, 1)
        THEN [ Early(target, upto_listing, nothing)
               EXCEPT !.raised = "aiohttp.ClientError", !.listing = listing ]
        ELSE IF meetings = << >>
        THEN [ Early(target, upto_listing,
                     Message("No meetings found for", target_date_str))
               EXCEPT !.listed = TRUE, !.listing = listing ]
        ELSE [ target |-> target,
               calls |-> upto_listing
                         \o ParticipantCalls(
                              SubSeq(answers, 1, Min(fetched + 1,
                                                     Len(selected))), 1),
               out |-> IF failing = {} THEN Render(found, target_date_str)
                       ELSE nothing,
               raised |-> IF failing = {} THEN "" ELSE "aiohttp.ClientError",
               listed |-> TRUE,
               listing |-> listing,
               meetings |-> meetings,
               selected |-> SubSeq(selected, 1, fetched),
               answers |-> SubSeq(answers, 1, Min(fetched + 1, Len(selected))),
               returned |-> returned,
               found |-> found ]

\* an answer of the participants endpoint that is empty and final
NoParticipants == << Page(200, << >>, FALSE) >>

\* the platform answers each participants request the call makes
GetAttendanceReport(target, token, email_set, user, listing) ==
    /\ zoom.n < MaxReports
    /\ LET dry == AttendanceReport(today, target, token, email_set, user,
                                   listing, [ j \in 1..MaxListed |->
                                                NoParticipants ])
       IN  \E answers \in [DOMAIN dry.selected -> ParticipantAnswers] :
             zoom' = [ n |-> zoom.n + 1,
                       call |-> AttendanceReport(today, target, token,
                                                 email_set, user, listing,
                                                 answers) ]
    /\ UNCHANGED << ps, users, today, result, last, caller, nops, chat >>

\* the clock, on the days of the reports
TickReportDay ==
    /\ \E dt \in ReportDays : DateLT(today, dt) /\ today' = dt
    /\ UNCHANGED << ps, users, result, last, caller, nops, zoom, chat >>

----------------------------------------------------------------------------
(* bot.py: the handlers of the chat layer *)

\* limit=5 of the /unpaid command
UnpaidLimit == 5

\* the action part of the callback data of the six buttons
ButtonActions == {"paid", "ignore", "followup", "pack3", "pack6", "inactive"}

\* a text message: whether float() / int() accepts it, and the number read
Typed(S) == { [numeric |-> TRUE, value |-> v] : v \in S }
              \cup { [numeric |-> FALSE, value |-> 0] }

\* check_user: the sender's username is in the list
CheckUser(r) == r \in AUTHORIZED_USERNAMES_LIST

\* the dispatcher hands the update of sender r to a handler
Handled(r, handler) == [chat EXCEPT !.from = r, !.handler = handler]

\* a handler that calls no persistence operation
NoDatabaseCall(handler) ==
    /\ last' = [NoOp EXCEPT !.op = handler]
    /\ caller' = NoCall
    /\ UNCHANGED << ps, users, today, result, nops, zoom >>

\* /start
Start(r) ==
    /\ chat' = Handled(r, "start")
    /\ NoDatabaseCall("start")

\* /unpaid: the rows fetched become messages with six buttons each
Unpaid(r) ==
    /\ chat' = Handled(r, "unpaid")
    /\ IF CheckUser(r)
       THEN FetchUnpaidUsers(UnpaidLimit)
       ELSE NoDatabaseCall("unpaid")

\* /update_payment, the entry point of the conversation: a handler that
\* returns None leaves the sender outside the conversation
UpdatePaymentStart(r) ==
    /\ chat.conv[r] = "END"
    /\ chat' = [ Handled(r, "update_payment_start") EXCEPT
                   !.conv[r] = IF CheckUser(r) THEN "USER_ID" ELSE "END" ]
    /\ NoDatabaseCall("update_payment_start")

\* the USER_ID state
UserId(r, u) ==
    /\ chat.conv[r] = "USER_ID"
    /\ chat' = [ Handled(r, "user_id") EXCEPT
                   !.user_data[r].user_id = u, !.conv[r] = "AMOUNT" ]
    /\ NoDatabaseCall("user_id")

\* the AMOUNT state: float(text), ValueError keeps the state
AmountStep(r, text) ==
    /\ chat.conv[r] = "AMOUNT"
    /\ chat' = IF text.numeric
               THEN [ Handled(r, "amount") EXCEPT
                        !.user_data[r].amount = text.value,
                        !.conv[r] = "MONTHS" ]
               ELSE Handled(r, "amount")
    /\ NoDatabaseCall("amount")

\* the MONTHS state: int(text), ValueError keeps the state
MonthsStep(r, text) ==
    /\ chat.conv[r] = "MONTHS"
    /\ chat' = IF text.numeric
               THEN [ Handled(r, "months") EXCEPT
                        !.user_data[r].months = text.value,
                        !.conv[r] = "BATCH_ID" ]
               ELSE Handled(r, "months")
    /\ NoDatabaseCall("months")

\* the BATCH_ID state: update_payment with what the conversation stored;
\* the handler returns ConversationHandler.END
BatchIdStep(r, b) ==
    /\ chat.conv[r] = "BATCH_ID"
    /\ \E failAt \in {0} \cup 1..chat.user_data[r].months :
         UpdatePayment(chat.user_data[r].user_id, chat.user_data[r].amount,
                       chat.user_data[r].months, b, failAt)
    /\ chat' = [ Handled(r, "batch_id") EXCEPT !.conv[r] = "END" ]

\* /cancel, the fallback of the conversation
Cancel(r) ==
    /\ chat.conv[r] # "END"
    /\ chat' = [ Handled(r, "cancel") EXCEPT
                   !.conv[r] = IF CheckUser(r) THEN "END" ELSE @ ]
    /\ NoDatabaseCall("cancel")

\* update_pack_payment(user_id, month, 3, 1333): the call has four
\* arguments and the function five parameters, so it raises TypeError
\* before the function opens a connection
PackCallRaises(u, month_name, pack_months) ==
    /\ nops < MaxOps
    /\ last' = Outcome("update_pack_payment", FALSE, u, month_name,
                        pack_months, 0, 0, "", 0)
    /\ caller' = [ret |-> "TypeError", conn |-> "none", reply |-> ""]
    /\ nops' = nops + 1
    /\ UNCHANGED << ps, users, today, result, zoom >>

\* a press of a button of the i-th message of the last /unpaid answer:
\* action, user_id, month = query.data.split('_'); no check_user
ButtonCallback(r, i, action, fault) ==
    /\ i \in DOMAIN result
    /\ chat' = Handled(r, "button_callback")
    /\ LET user_id == result[i].id
           month == result[i].Due_Months
       IN  CASE action \in {"paid", "ignore"} ->
                  UpdatePaymentStatus(user_id, month, action, fault)
             [] action = "followup" ->
                  UpdateFollowupDate(user_id, month, fault)
             [] action = "pack3" -> PackCallRaises(user_id, month, 3)
             [] action = "pack6" -> PackCallRaises(user_id, month, 6)
             [] action = "inactive" ->
                  MarkUserInactive(user_id, month, fault # "none")

----------------------------------------------------------------------------

Next ==
    \/ \E u \in Users, amt \in Amounts, b \in Batches :
         \E n \in MonthCounts \cup NonPositiveCounts :
           \E failAt \in {0} \cup 1..n :
             UpdatePayment(u, amt, n, b, failAt) /\ UNCHANGED chat
    \/ \E u \in Users, st \in StatusArgs, fault \in Faults :
         \E mn \in MonthArgs(u) :
           UpdatePaymentStatus(u, mn, st, fault) /\ UNCHANGED chat
    \/ \E u \in Users, fault \in Faults :
         \E mn \in MonthArgs(u) :
           UpdateFollowupDate(u, mn, fault) /\ UNCHANGED chat
    \/ \E u \in Users, pk \in PackChoices, b \in Batches :
         \E mn \in MonthArgs(u), failAt \in 0..pk[1] :
           UpdatePackPayment(u, mn, pk[1], pk[2], b, failAt)
             /\ UNCHANGED chat
    \/ \E u \in Users, fail \in BOOLEAN :
         \E mn \in MonthArgs(u) :
           MarkUserInactive(u, mn, fail) /\ UNCHANGED chat
    \/ \E limit \in Limits : FetchUnpaidUsers(limit) /\ UNCHANGED chat
    \/ \E u \in Users, fault \in Faults :
         GetBatchIdForUser(u, fault) /\ UNCHANGED chat
    \/ Tick

Spec == Init /\ [][Next]_vars

\* schedules that span a year or more, on their own
NextYear ==
    \/ \E u \in Users, amt \in Amounts, n \in YearCounts, b \in Batches :
         \E failAt \in 0..n :
           UpdatePayment(u, amt, n, b, failAt) /\ UNCHANGED chat
    \/ Tick

SpecYear == Init /\ [][NextYear]_vars

\* the operations as the chat layer runs them
NextChat ==
    \/ \E r \in Requesters : Start(r)
    \/ \E r \in Requesters : Unpaid(r)
    \/ \E r \in Requesters : UpdatePaymentStart(r)
    \/ \E r \in Requesters, u \in Users : UserId(r, u)
    \/ \E r \in Requesters, text \in Typed(Amounts) : AmountStep(r, text)
    \/ \E r \in Requesters, text \in Typed(MonthCounts) : MonthsStep(r, text)
    \/ \E r \in Requesters, b \in Batches : BatchIdStep(r, b)
    \/ \E r \in Requesters : Cancel(r)
    \/ \E r \in Requesters, action \in ButtonActions, fault \in Faults :
         \E i \in DOMAIN result : ButtonCallback(r, i, action, fault)

SpecChat == Init /\ [][NextChat]_vars

\* the attendance reports, on their own
InitZoom ==
    /\ chat = NoChat
    /\ ps = << >>
    /\ users = [u \in Users |-> [status |-> "active"]]
    /\ today \in ReportDays
    /\ result = << >>
    /\ last = NoOp
    /\ caller = NoCall
    /\ nops = 0
    /\ zoom = NoReport

NextZoom ==
    \/ \E target \in TargetArgs, token \in TokenAnswers, email_set \in BOOLEAN :
         \E user \in UserAnswers, listing \in ListingAnswers :
           GetAttendanceReport(target, token, email_set, user, listing)
    \/ TickReportDay

SpecZoom == InitZoom /\ [][NextZoom]_vars

----------------------------------------------------------------------------
(* Properties *)

\* the index of a month name
MonthIndex(month_name) == CHOOSE i \in 1..12 : MonthNames[i] = month_name

\* the (month, year) slot i months after the slot (m, y)
SlotAfter(m, y, i) ==
    [ m |-> ((m - 1 + i) % 12) + 1, y |-> y + ((m - 1 + i) \div 12) ]

\* the rows of user u recorded for a (month, year) slot
RowsInSlot(tbl, u, slot) ==
    { k \in DOMAIN tbl : /\ tbl[k].user = u
                         /\ tbl[k].month = MonthNames[slot.m]
                         /\ tbl[k].start_date.y = slot.y }

\* C1: a successful update_payment(user, A, N, batch) on a user without
\* records leaves exactly N records of that user, one for each of the N
\* consecutive calendar months from the current month, each Due with amount
\* A/N.
C1_FreshSchedule ==
    [][ ( /\ last'.op = "update_payment"
          /\ last'.ok
          /\ RowsOf(ps, last'.user) = {} )
        => /\ Cardinality(RowsOf(ps', last'.user)) = last'.n
           /\ \A i \in 0..(last'.n - 1) :
                LET rows == RowsInSlot(ps', last'.user,
                                       SlotAfter(today.m, today.y, i))
                IN  /\ Cardinality(rows) = 1
                    /\ \A k \in rows :
                         /\ ps'[k].status = "Due"
                         /\ ps'[k].amount = Frac(last'.amt, last'.n) ]_vars

\* C2: in every reachable state there is at most one payment_schedule record
\* per (user, calendar month, calendar year).
C2_OneRecordPerSlot ==
    \A j, k \in DOMAIN ps :
        ( /\ j # k
          /\ ps[j].user = ps[k].user
          /\ ps[j].month = ps[k].month
          /\ ps[j].start_date.y = ps[k].start_date.y ) => FALSE

\* C3: update_pack_payment leaves every record that is already Paid exactly
\* as it was.
C3_PackKeepsPaid ==
    [][ last'.op = "update_pack_payment"
        => \A k \in DOMAIN ps :
             ps[k].status = "paid" => ps'[k] = ps[k] ]_vars

\* C4: after a successful update_pack_payment of length L whose L consecutive
\* months from the anchor are each Due or absent, each of those L (month,
\* year) slots holds exactly one record and it is Paid, also when the range
\* runs from December into January.
C4_PackSettlesRange ==
    [][ ( /\ last'.op = "update_pack_payment"
          /\ last'.ok
          /\ \A i \in 0..(last'.n - 1) :
               \A k \in RowsInSlot(ps, last'.user,
                                   SlotAfter(MonthIndex(last'.month),
                                             today.y, i)) :
                 ps[k].status = "Due" )
        => \A i \in 0..(last'.n - 1) :
             LET rows == RowsInSlot(ps', last'.user,
                                    SlotAfter(MonthIndex(last'.month),
                                              today.y, i))
             IN  /\ Cardinality(rows) = 1
                 /\ \A k \in rows : ps'[k].status = "paid" ]_vars

\* C5: after a successful mark_user_inactive(user, current month) on a user
\* that has a record for the current month, no record of the user starts
\* after the end of the current month, exactly one record exists for the
\* current month, it is Paid with amount 0, and the user is inactive.
C5_InactiveVoidsFuture ==
    [][ ( /\ last'.op = "mark_user_inactive"
          /\ last'.ok
          /\ last'.month = MonthName(today)
          /\ RowsInSlot(ps, last'.user, [m |-> today.m, y |-> today.y]) # {} )
        => /\ \A k \in RowsOf(ps', last'.user) :
                ~ DateLT(LastDayOfMonth(today), ps'[k].start_date)
           /\ LET rows == RowsInSlot(ps', last'.user,
                                     [m |-> today.m, y |-> today.y])
              IN  /\ Cardinality(rows) = 1
                  /\ \A k \in rows : /\ ps'[k].status = "paid"
                                     /\ ps'[k].amount = << 0, 1 >>
           /\ users'[last'.user].status = "inactive" ]_vars

\* C6: update_payment_status(user, month, 'ignore') leaves the record it is
\* applied to (the user's record of that month in the current year) Paid
\* with amount 0, whatever its amount and status were.
C6_IgnoreWritesOff ==
    [][ ( /\ last'.op = "update_payment_status"
          /\ last'.ok
          /\ last'.arg = "ignore" )
        => \A k \in DOMAIN ps :
             MatchThisYear(ps, k, last'.user, last'.month, today)
               => /\ ps'[k].status = "paid"
                  /\ ps'[k].amount = << 0, 1 >> ]_vars

C6_Witness ==
    /\ last.op = "update_payment_status"
    /\ last.ok
    /\ last.arg = "ignore"
    /\ \E k \in DOMAIN ps :
         /\ MatchThisYear(ps, k, last.user, last.month, today)
         /\ ps[k].status = "paid"
         /\ ps[k].amount = << 0, 1 >>

\* C7: the rows fetch_unpaid_users returns name each user at most once and
\* are in ascending order of oldest due date.
C7_FetchDistinctSorted ==
    \A i, j \in DOMAIN result :
        i < j => /\ result[i].id # result[j].id
                 /\ DateLE(result[i].start_date, result[j].start_date)

C7_Witness ==
    /\ last.op = "fetch_unpaid_users"
    /\ Len(result) = 2
    /\ DateLT(result[1].start_date, result[2].start_date)
    /\ \E u \in Users :
         Cardinality({ k \in Eligible(ps, users, today) : ps[k].user = u }) > 1

\* C8: no step of update_payment_status, update_followup_date,
\* update_pack_payment or mark_user_inactive takes a record from Paid to Due.
C8_PaidStaysPaid ==
    [][ last'.op \in { "update_payment_status", "update_followup_date",
                       "update_pack_payment", "mark_user_inactive" }
        => \A k \in DOMAIN ps :
             ps[k].status = "paid" => ps'[k].status = "paid" ]_vars

C8_Witness ==
    /\ last.op = "update_followup_date"
    /\ last.ok
    /\ \E k \in DOMAIN ps :
         /\ MatchThisYear(ps, k, last.user, last.month, today)
         /\ ps[k].follow_up = today
         /\ ps[k].status = "paid"

\* C9: an update_payment in which a statement fails leaves payment_schedule
\* as it was before the call.
C9_UpdatePaymentAtomic ==
    [][ (last'.op = "update_payment" /\ ~ last'.ok) => ps' = ps ]_vars

C9_Witness ==
    /\ last.op = "update_payment"
    /\ ~ last.ok
    /\ last.n = 3
    /\ last.at = 3
    /\ RowsOf(ps, last.user) = {}

\* C10: an update_pack_payment that returns False has inserted and updated
\* nothing; one that returns True has processed every month of the pack:
\* each of the pack's month names has a record of the user that is Paid with
\* the pack's amount and batch.
C10_PackAtomic ==
    [][ last'.op = "update_pack_payment"
        => IF last'.ok
           THEN \A i \in 0..(last'.n - 1) :
                  \E k \in RowsOf(ps', last'.user) :
                    /\ ps'[k].month =
                         MonthNames[SlotAfter(MonthIndex(last'.month),
                                              today.y, i).m]
                    /\ ps'[k].status = "paid"
                    /\ ps'[k].amount = Frac(last'.amt, 1)
                    /\ ps'[k].batch = last'.batch
           ELSE ps' = ps ]_vars

\* a statement of the third month failed after two months were written
C10_Witness ==
    /\ last.op = "update_pack_payment"
    /\ ~ last.ok
    /\ last.at = 3
    /\ RowsOf(ps, last.user) # {}

\* C11: update_pack_payment anchors the pack at the user's earliest Due
\* record: when the user has Due records, a successful pack leaves the
\* earliest of them Paid, also when the start-month hint names a later month.
C11_PackAnchorsEarliestDue ==
    [][ ( /\ last'.op = "update_pack_payment"
          /\ last'.ok
          /\ \E k \in RowsOf(ps, last'.user) : ps[k].status = "Due" )
        => LET due == { k \in RowsOf(ps, last'.user) : ps[k].status = "Due" }
               earliest == MinDate({ ps[k].start_date : k \in due })
           IN  \A k \in due :
                 ps[k].start_date = earliest => ps'[k].status = "paid" ]_vars

\* C20: each row fetch_unpaid_users returns carries the month label and the
\* start date of that user's earliest Due record (the minimum start date
\* over all the user's Due records), and the result has at most `limit`
\* rows.
C20_FetchCarriesEarliestDue ==
    last.op = "fetch_unpaid_users"
    => /\ Len(result) <= last.n
       /\ \A i \in DOMAIN result :
            LET due == { k \in RowsOf(ps, result[i].id) :
                           ps[k].status = "Due" }
                earliest == MinDate({ ps[k].start_date : k \in due })
            IN  /\ due # {}
                /\ result[i].start_date = earliest
                /\ \E k \in due : /\ ps[k].start_date = earliest
                                  /\ ps[k].month = result[i].Due_Months

\* an exception reached the caller
Escaped(c) == c.ret \in {"mysql.connector.Error", "ZeroDivisionError"}

\* C17: a persistence failure of update_payment_status or
\* update_followup_date, failure to obtain the connection included, gives a
\* rollback and the return value False: no exception reaches the caller and
\* the table is unchanged.
C17_FailureReturnsFalse ==
    [][ ( /\ last'.op \in {"update_payment_status", "update_followup_date"}
          /\ ~last'.ok )
        => /\ caller'.ret = "False"
           /\ ~Escaped(caller')
           /\ ps' = ps ]_vars

\* C18: update_payment tells its caller the outcome: the conversation
\* replies 'updated successfully' exactly when the months were committed.
C18_ReplyTellsOutcome ==
    [][ ( last'.op = "update_payment" /\ last'.n >= 1 )
        => ( caller'.reply = "Payment information updated successfully."
             <=> last'.ok ) ]_vars

\* C19: update_payment with months <= 0 is rejected before any persistence
\* I/O: no connection is acquired, no record is written, and the caller
\* gets a failure signal, not an uncaught fault.
C19_RejectsNonPositiveMonths ==
    [][ ( last'.op = "update_payment" /\ last'.n <= 0 )
        => /\ caller'.conn = "none"
           /\ ps' = ps
           /\ ~Escaped(caller')
           /\ ~Truthy(caller'.ret) ]_vars

----------------------------------------------------------------------------
(* Properties of the attendance report *)

\* the instance at position i of the listing has an entry in found_batches
Reported(c, i) == \E j \in DOMAIN c.selected : c.selected[j] = i

\* the batch under which the instance at position i is reported
TopicOf(c, i) ==
    c.found[CHOOSE j \in DOMAIN c.selected : c.selected[j] = i].topic

\* the date the call reports on
TargetDate(c) == c.out.date.date

\* the local calendar date of a UTC start time: from 18:30 UTC on, the
\* next day
LocalDate(start_time) ==
    IF start_time.hh * 60 + start_time.mm >= 1110
    THEN NextDay(start_time.date)
    ELSE start_time.date

\* C12: when the call returns, an instance (of a configured batch, with a
\* start time in the platform's format and a uuid) is in the report for the
\* target date
\* exactly when its UTC start time plus 5:30 falls on that date; the
\* instance starting 2025-11-23T19:00:00Z is in the report for 2025-11-24
\* and not in the report for 2025-11-23.
C12_LocalDateAttribution ==
    ( zoom.call.listed /\ zoom.call.raised = "" )
    => \A i \in DOMAIN zoom.call.meetings :
         LET c == zoom.call
             m == c.meetings[i]
         IN  /\ ( /\ BatchName(m.id) # ""
                  /\ m.start_time.fmt \in {"Z", "ms"}
                  /\ m.uuid # "" )
                => ( Reported(c, i)
                     <=> LocalDate(m.start_time) = TargetDate(c) )
             /\ Reported(c, i) => c.out.text = "Attendance Report for"
             /\ m = LateInstance
                => /\ TargetDate(c) = D24 => Reported(c, i)
                   /\ TargetDate(c) = D23 => ~Reported(c, i)

C12_Witness ==
    /\ zoom.call.listed
    /\ zoom.call.raised = ""
    /\ TargetDate(zoom.call) = D24
    /\ \E i \in DOMAIN zoom.call.meetings :
         /\ zoom.call.meetings[i] = LateInstance
         /\ Reported(zoom.call, i)

\* an instance the loop reaches the batch matching with and that passes the
\* later checks when it matches
OnDate(c, m) ==
    /\ m.start_time.fmt \in {"Z", "ms"}
    /\ LocalDate(m.start_time) = TargetDate(c)
    /\ m.uuid # ""

\* C13: in a call that returns, identifiers are compared with every
\* non-digit character stripped:
\* an instance is reported under a batch only if its stripped identifier
\* equals the batch identifier or ends with it; "8352 7645 001" and
\* "83527645001" are reported under the same batch; an instance is under at
\* most one batch.
C13_DigitOnlyMatching ==
    ( zoom.call.listed /\ zoom.call.raised = "" )
    => LET c == zoom.call
       IN  /\ \A i \in DOMAIN c.meetings :
                LET m == c.meetings[i]
                    stripped == SelectSeq(m.id, IsDigit)
                IN  /\ Reported(c, i)
                       => \E b \in DOMAIN BATCH_IDS :
                            /\ BATCH_IDS[b].name = TopicOf(c, i)
                            /\ \/ stripped = BATCH_IDS[b].id
                               \/ EndsWith(stripped, BATCH_IDS[b].id)
                    /\ ( OnDate(c, m) /\ m.id \in {PlainId, SpacedId} )
                       => Reported(c, i) /\ TopicOf(c, i) = "Batch 1"
                    /\ ( OnDate(c, m) /\ m.id = PrefixedId )
                       => Reported(c, i) /\ TopicOf(c, i) = "Batch 2"
                    /\ m.id = OtherId => ~Reported(c, i)
           /\ \A j, k \in DOMAIN c.selected :
                c.selected[j] = c.selected[k] => j = k

C13_Witness ==
    /\ zoom.call.listed
    /\ zoom.call.raised = ""
    /\ \E i, k \in DOMAIN zoom.call.meetings :
         /\ zoom.call.meetings[i].id = PlainId
         /\ zoom.call.meetings[k].id = SpacedId
         /\ Reported(zoom.call, i)
         /\ Reported(zoom.call, k)
         /\ TopicOf(zoom.call, i) = TopicOf(zoom.call, k)

\* the place of a name in the order of sorted()
Rank(name) == CHOOSE i \in DOMAIN NameOrder : NameOrder[i] = name

\* the truthy names among the entries the platform returned
NamesIn(entries) == { entries[i] : i \in DOMAIN entries } \ {""}

\* C14: for every reported instance the participant list holds each distinct
\* name the platform returned exactly once, in sorted order, and never the
\* host's name "Apoorva Yoga"; so do the lines of the report.
C14_DistinctSortedNoHost ==
    /\ \A j \in DOMAIN zoom.call.found :
         LET names == zoom.call.found[j].participants
         IN  /\ \A a, b \in DOMAIN names :
                  a < b => Rank(names[a]) < Rank(names[b])
             /\ \A a \in DOMAIN names : names[a] # "Apoorva Yoga"
             /\ { names[a] : a \in DOMAIN names }
                  = NamesIn(zoom.call.returned[j]) \ {"Apoorva Yoga"}
    /\ \A s \in DOMAIN zoom.call.out.sections :
         \A k \in DOMAIN zoom.call.out.sections[s].meetings :
           LET lines == zoom.call.out.sections[s].meetings[k].lines
           IN  /\ \A a, b \in DOMAIN lines : lines[a] = lines[b] => a = b
               /\ \A a \in DOMAIN lines : lines[a] # "Apoorva Yoga"

C14_Witness ==
    \E j \in DOMAIN zoom.call.found :
      /\ Len(zoom.call.returned[j]) > Cardinality(NamesIn(zoom.call.returned[j]))
      /\ "Apoorva Yoga" \in NamesIn(zoom.call.returned[j])
      /\ Len(zoom.call.found[j].participants) >= 2

\* no instance of the listing is of a configured batch on the target date
NoneMatches(c) ==
    \A i \in DOMAIN c.meetings :
      ~ ( /\ BatchName(c.meetings[i].id) # ""
          /\ c.meetings[i].start_time.fmt \in {"Z", "ms"}
          /\ LocalDate(c.meetings[i].start_time) = TargetDate(c) )

\* C15: when the listing was answered and no instance matches a configured
\* batch on the target date the call returns a "no meetings" string; it never returns a report that has
\* a title and no batch section.
C15_NoEmptyReport ==
    ( zoom.call.listed /\ zoom.call.raised = "" )
    => /\ NoneMatches(zoom.call)
          => zoom.call.out.text \in { "No meetings found for",
                                      "No Batch meetings found for" }
       /\ zoom.call.out.text = "Attendance Report for"
          => zoom.call.out.sections # << >>

C15_Witness ==
    /\ zoom.call.listed
    /\ zoom.call.raised = ""
    /\ zoom.call.meetings # << >>
    /\ NoneMatches(zoom.call)
    /\ zoom.call.out.text = "No Batch meetings found for"

\* C16: a call for a date in the future returns the rejection message
\* without having made any network call.
C16_FutureRejectedOffline ==
    [][ ( /\ zoom'.n = zoom.n + 1
          /\ zoom'.call.target.fmt = "iso"
          /\ DateLT(today, zoom'.call.target.date) )
        => /\ zoom'.call.out.text = "is in the future"
           /\ zoom'.call.calls = << >> ]_vars

----------------------------------------------------------------------------
(* Further properties of the billing engine *)

\* the Due records of user u
DueOf(tbl, u) == { k \in RowsOf(tbl, u) : tbl[k].status = "Due" }

\* a follow-up date that is within the cooldown window on day now
InCooldown(follow_up, now) ==
    /\ follow_up # Null
    /\ DayNum(now) - DayNum(follow_up) <= 4

\* C21: while the follow-up date stamped on a user's earliest Due month is
\* within the cooldown window, fetch_unpaid_users does not return that user.
C21_CooldownHidesUser ==
    [][ last'.op = "fetch_unpaid_users"
        => \A u \in Users :
             ( /\ DueOf(ps, u) # {}
               /\ \E k \in DueOf(ps, u) :
                    /\ ps[k].start_date
                         = MinDate({ ps[j].start_date : j \in DueOf(ps, u) })
                    /\ InCooldown(ps[k].follow_up, today) )
             => \A i \in DOMAIN result' : result'[i].id # u ]_vars

\* the records of user u named for a month
RowsNamed(tbl, u, month_name) ==
    { k \in RowsOf(tbl, u) : tbl[k].month = month_name }

\* C22: update_payment is an idempotent upsert: run again with the same
\* arguments on the same day it leaves the table as the first run left it;
\* a record that was Paid in a month slot of the schedule gets the new
\* amount, dates and batch and the status Due, and no record is added for
\* its month.
C22_IdempotentUpsert ==
    [][ ( last'.op = "update_payment" /\ last'.ok /\ last'.n >= 1 )
        => LET u == last'.user
               n == last'.n
               amt == last'.amt
               b == last'.batch
           IN  /\ UpdatePaymentLoop(ps', u, amt, n, b, 0, n, today) = ps'
               /\ \A i \in 0..(n - 1) : \A k \in RowsOf(ps, u) :
                    LET month_start == AddMonths(today, i)
                    IN  ( /\ ps[k].status = "paid"
                          /\ ps[k].month = MonthName(month_start)
                          /\ ps[k].start_date.y = month_start.y )
                        => /\ ps'[k].status = "Due"
                           /\ ps'[k].amount = Frac(amt, n)
                           /\ ps'[k].batch = b
                           /\ ps'[k].start_date = month_start
                           /\ ps'[k].end_date
                                = SubDay(LastDayOfMonth(month_start))
                           /\ Cardinality(RowsNamed(ps', u, ps[k].month))
                                = Cardinality(RowsNamed(ps, u, ps[k].month))
      ]_vars

\* update_payment has just run over the month a pack had paid: the month of
\* today is Due again and the later pack months are still paid
C22_Witness ==
    /\ last.op = "update_payment"
    /\ last.ok
    /\ last.n = 1
    /\ \E k, j \in RowsOf(ps, last.user) :
         /\ ps[k].status = "Due"
         /\ ps[k].start_date = today
         /\ ps[k].amount = Frac(last.amt, 1)
         /\ ps[j].status = "paid"
         /\ ps[j].amount \in { Frac(pk[2], 1) : pk \in PackChoices }
    /\ Cardinality(RowsNamed(ps, last.user, MonthName(today))) = 1

\* the records whose follow-up date a step changed
Stamped(before, after) ==
    { k \in DOMAIN before : after[k].follow_up # before[k].follow_up }

\* C23: update_followup_date(user, month) changes only the follow-up date of
\* the single record for (user, month, current year): at most one record
\* changes, it is of that user, month and year, its other columns keep their
\* values, and no record is added and no users row changes.
C23_FollowupTouchesOneRecord ==
    [][ ( last'.op = "update_followup_date" /\ last'.ok )
        => /\ DOMAIN ps' = DOMAIN ps
           /\ users' = users
           /\ \A k \in DOMAIN ps :
                /\ [ ps'[k] EXCEPT !.follow_up = Null ]
                     = [ ps[k] EXCEPT !.follow_up = Null ]
                /\ k \in Stamped(ps, ps')
                   => /\ ps[k].user = last'.user
                      /\ ps[k].month = last'.month
                      /\ ps[k].start_date.y = today.y
                      /\ ps'[k].follow_up = today
           /\ Cardinality(Stamped(ps, ps')) <= 1 ]_vars

\* C24: in every reachable state the start date and the end date of each
\* record fall within the month the record is named for, in the year of
\* its slot.
C24_PeriodWithinMonth ==
    \A k \in DOMAIN ps :
      /\ ps[k].start_date.m = MonthIndex(ps[k].month)
      /\ ps[k].end_date.m = MonthIndex(ps[k].month)
      /\ ps[k].end_date.y = ps[k].start_date.y

----------------------------------------------------------------------------
(* Further properties of the attendance report *)

\* the page at which the platform ends an answer: the first one that is
\* not a 200 or carries no continuation token
EndOf(pages) ==
    CHOOSE i \in DOMAIN pages :
      /\ pages[i].status # 200 \/ ~pages[i].more
      /\ \A j \in 1..(i - 1) : pages[j].status = 200 /\ pages[j].more

\* the answer ends in an error response or a fault of the transport
FetchFailed(pages) == pages[EndOf(pages)].status # 200

\* C25: when the participants fetch of a matched instance fails (error
\* response or transport fault) the call still returns the report: every
\* matched instance is reported, and the failing one is rendered with the
\* 'No participants found.' marker.
C25_FetchFailureIsolated ==
    \A j \in DOMAIN zoom.call.answers :
      FetchFailed(zoom.call.answers[j])
      => LET c == zoom.call
         IN  /\ c.raised = ""
             /\ c.out.text = "Attendance Report for"
             /\ \A i \in DOMAIN c.meetings :
                  ( BatchName(c.meetings[i].id) # "" /\ OnDate(c, c.meetings[i]) )
                  => Reported(c, i)
             /\ j \in DOMAIN c.found
             /\ c.found[j].participants = << >>
             /\ \E s \in DOMAIN c.out.sections :
                  /\ c.out.sections[s].batch = c.found[j].topic
                  /\ \E k \in DOMAIN c.out.sections[s].meetings :
                       c.out.sections[s].meetings[k].lines
                         = << "No participants found." >>

\* C26: when the listing ends in a permission error the returned string is a
\* permission diagnostic: it is none of the strings the call returns when
\* the platform answered, in particular not the "No meetings found" string.
C26_PermissionDiagnostic ==
    ( /\ zoom.call.listing # << >>
      /\ zoom.call.listing[EndOf(zoom.call.listing)].status = 403 )
    => /\ zoom.call.raised = ""
       /\ zoom.call.out.text \notin { "No meetings found for",
                                      "No Batch meetings found for",
                                      "Attendance Report for" }

\* the entries of pages 1..n, in order
RECURSIVE Concat(_, _)
Concat(pages, n) ==
    IF n = 0 THEN << >> ELSE Concat(pages, n - 1) \o pages[n].items

\* every page up to the end of the answer is a 200
AllSucceed(pages) == \A i \in 1..EndOf(pages) : pages[i].status = 200

\* the number of pages up to the end, over answers 1..j
RECURSIVE PagesUpTo(_, _)
PagesUpTo(answers, j) ==
    IF j = 0 THEN 0 ELSE PagesUpTo(answers, j - 1) + EndOf(answers[j])

\* the number of requests of the call to the endpoints named
Count(c, endpoints) ==
    Cardinality({ i \in DOMAIN c.calls : c.calls[i] \in endpoints })

\* C28: both page loops request pages up to the first response without a
\* continuation token (or the first that is not a 200) and no further; when
\* every page succeeds the list returned is the concatenation, in order, of
\* the entries of all the pages.
C28_PagesReadToTheEnd ==
    LET c == zoom.call
    IN  /\ c.listing # << >>
           => /\ Count(c, { "GET report/users/{id}/meetings",
                            "GET report/users/{email}/meetings" })
                   = EndOf(c.listing)
              /\ AllSucceed(c.listing)
                 => c.meetings = Concat(c.listing, EndOf(c.listing))
        /\ Count(c, { "GET report/meetings/{uuid}/participants" })
             = PagesUpTo(c.answers, Len(c.answers))
        /\ \A j \in DOMAIN c.returned :
             AllSucceed(c.answers[j])
             => c.returned[j] = Concat(c.answers[j], EndOf(c.answers[j]))

C28_Witness ==
    /\ zoom.call.raised = ""
    /\ Len(zoom.call.listing) = 2
    /\ AllSucceed(zoom.call.listing)
    /\ Len(zoom.call.meetings) = 2
    /\ \E j \in DOMAIN zoom.call.returned :
         /\ EndOf(zoom.call.answers[j]) = 2
         /\ AllSucceed(zoom.call.answers[j])
         /\ Len(zoom.call.returned[j]) = 5

----------------------------------------------------------------------------
\* C27: every persistence operation releases the connection it acquired on
\* every exit path: after an operation has ended, by a return or by an
\* exception, no connection it opened is still open.
C27_ConnectionReleased == caller.conn # "open"

----------------------------------------------------------------------------
\* C29: inactivation is terminal for follow-up: the fetch_unpaid_users call
\* that comes right after a successful mark_user_inactive for a user, with
\* no update_payment for that user in between, does not return that user.
C29_InactiveNotFollowedUp ==
    [][ ( /\ last.op = "mark_user_inactive"
          /\ last.ok
          /\ last'.op = "fetch_unpaid_users" )
        => \A i \in DOMAIN result' : result'[i].id # last.user ]_vars

----------------------------------------------------------------------------
\* C30: every state-changing billing operation the chat layer can reach
\* runs only for a sender whose username is in the authorized list: an
\* update sent by anyone else changes neither payment_schedule nor users.
C30_UnauthorizedChangesNothing ==
    [][ chat'.from \notin AUTHORIZED_USERNAMES_LIST
        => ps' = ps /\ users' = users ]_vars

====
